---- MODULE Spec2Model ----
(***************************************************************************)
(* Spectral partitioning of wavespectra: watershed.py (nppart, partition,  *)
(* hs, inflection) and partition.py (Partition.ptm1 .. ptm5).              *)
(*                                                                         *)
(* Units.  Floats are carried as exact integers:                           *)
(*   frequency   mHz            (0.05 Hz = 50, 0.333 Hz = 333)             *)
(*   direction   degrees                                                   *)
(*   speeds      1e-4 m/s       (Up, celerity)                             *)
(*   cosines     1e-3                                                      *)
(*   agefac      tenths         (1.7 = 17)                                 *)
(*   wscut       1e-4           (0.3333 = 3333)                            *)
(*   Hs          hs() returns 250 * Hs^2 = 4000 * Etot, which orders as Hs *)
(* A float is a natural number or NaN; NaN is absorbing in arithmetic and  *)
(* makes every comparison false, as in IEEE 754 / numpy.                   *)
(***************************************************************************)
EXTENDS Integers, Sequences, FiniteSets, TLC

\* ------------------------------------------------------------------ bounds
\* largest energy density of a bin of an input spectrum
MaxE == 1
\* largest number of swell partitions requested
MaxSwells == 2

\* ------------------------------------------------------ program constants
\* agefac=1.7, in tenths
AGEFAC == 17
\* wscut=0.3333, in 1e-4
WSCUT == 3333
\* inflection(..., dfres=0.01), mHz
DFRES == 10
\* inflection(..., fmin=0.05), mHz
FMIN == 50
\* newpart.sum() > 20
MINBINS == 20
\* hs: freq[-1] > 0.333, mHz
TAILFREQ == 333
\* partition(..., hs_min=0.001), mm
HS_MIN == 1

\* ------------------------------------------------------------------ floats
NaN == 0 - 1
IsNaN(x) == x = NaN
FAdd(a, b) == IF IsNaN(a) \/ IsNaN(b) THEN NaN ELSE a + b
FMul(a, b) == IF IsNaN(a) \/ IsNaN(b) THEN NaN ELSE a * b
FGt(a, b) == ~IsNaN(a) /\ ~IsNaN(b) /\ a > b
FLt(a, b) == ~IsNaN(a) /\ ~IsNaN(b) /\ a < b

RECURSIVE FSumSeq(_)
FSumSeq(s) == IF s = << >> THEN 0 ELSE FAdd(Head(s), FSumSeq(Tail(s)))

\* ------------------------------------------------------------------- grids
NFreq(grid) == Len(grid)
NDir(grid) == IF Len(grid) = 0 THEN 0 ELSE Len(grid[1])
Bins(grid) == {<<f, d>> : f \in 1..NFreq(grid), d \in 1..NDir(grid)}
\* spectrum.sum(1): the sum over direction, one entry per frequency
SumDir(grid) == [f \in 1..NFreq(grid) |-> FSumSeq(grid[f])]
\* grid.sum()
SumAll(grid) == FSumSeq(SumDir(grid))
\* np.where with ">=" for "==": a partition takes the bins of every higher label too
WhereAtLeast(part_array, part, spectrum) ==
    [f \in 1..NFreq(spectrum) |-> [d \in 1..NDir(spectrum) |->
        IF part_array[f][d] >= part THEN spectrum[f][d] ELSE 0]]
\* np.where(part_array == part, spectrum, 0.0)
Where(part_array, part, spectrum) ==
    [f \in 1..NFreq(spectrum) |-> [d \in 1..NDir(spectrum) |->
        IF part_array[f][d] = part THEN spectrum[f][d] ELSE 0]]
\* part_array.max()
ArrayMax(part_array) ==
    CHOOSE m \in {part_array[b[1]][b[2]] : b \in Bins(part_array)} :
        \A b \in Bins(part_array) : part_array[b[1]][b[2]] <= m

\* ------------------------------------------------- wind-sea classification
\* 1000 * cos(D2R * deg), for multiples of 30 degrees
Cos1000(deg) ==
    LET a == deg % 360 IN
    CASE a \in {0} -> 1000
      [] a \in {30, 330} -> 866
      [] a \in {60, 300} -> 500
      [] a \in {90, 270} -> 0
      [] a \in {120, 240} -> 0 - 500
      [] a \in {150, 210} -> 0 - 866
      [] a \in {180} -> 0 - 1000

\* celerity(freq, dpt) of wavespectra.specarray, deep water: g / (2 pi f),
\* 1.5613 / f[Hz] m/s, in 1e-4 m/s rounded down
celerity(freq, dpt) == [f \in 1..Len(freq) |-> 15613000 \div freq[f]]

\* Up = agefac * wspd * np.cos(D2R * (dir - wdir)), in 1e-4 m/s
WindSpeedComponent(agefac, wspd, dir, wdir) ==
    [d \in 1..Len(dir) |-> agefac * wspd * Cos1000(dir[d] - wdir)]

\* windbool = np.tile(Up, (freq.size, 1)) > np.tile(celerity(freq, dpt)[:, _], (1, dir.size))
NppartWindbool(freq, dir, wspd, wdir, dpt, agefac) ==
    LET Up == WindSpeedComponent(agefac, wspd, dir, wdir)
        cel == celerity(freq, dpt)
    IN [f \in 1..Len(freq) |-> [d \in 1..Len(dir) |-> Up[d] > cel[f]]]

\* part_spec[windbool].sum()
SumMasked(grid, mask) ==
    SumAll([f \in 1..NFreq(grid) |-> [d \in 1..NDir(grid) |->
        IF mask[f][d] THEN grid[f][d] ELSE 0]])

\* W = part_spec[windbool].sum() / part_spec.sum();  W > wscut
\* (0/0 and NaN/NaN are NaN, and NaN > wscut is False)
WGtWscut(part_spec, windbool, wscut) ==
    LET a == SumMasked(part_spec, windbool)
        b == SumAll(part_spec)
    IN IF IsNaN(a) \/ IsNaN(b) \/ b = 0 THEN FALSE
       ELSE 10000 * a > wscut * b

\* -------------------------------------------------------------------- hs
\* hs(spectrum, freq, dir, tail): 4 * sqrt(Etot), returned as 4000 * Etot
hs(spectrum, freq, dir, tail) ==
    LET n == Len(freq)
        \* ddir = abs(dir[1] - dir[0]); E = ddir * spectrum.sum(1)
        E == IF Len(dir) > 1
             THEN [f \in 1..n |->
                     FMul(IF dir[2] >= dir[1] THEN dir[2] - dir[1] ELSE dir[1] - dir[2],
                          SumDir(spectrum)[f])]
             ELSE [f \in 1..n |-> spectrum[f][1]]
        \* df = abs(freq[1:] - freq[:-1]); Etot = 0.5 * sum(df * (E[1:] + E[:-1]))
        trap == FSumSeq([k \in 1..(n - 1) |->
                    FMul(IF freq[k + 1] >= freq[k] THEN freq[k + 1] - freq[k]
                                                   ELSE freq[k] - freq[k + 1],
                         FAdd(E[k + 1], E[k]))])
        \* if tail and freq[-1] > 0.333: Etot += 0.25 * E[-1] * freq[-1]
        tailterm == IF tail /\ freq[n] > TAILFREQ THEN FMul(E[n], freq[n]) ELSE 0
    IN FAdd(FMul(2, trap), tailterm)

\* hs, lines 153-155: with one direction E = np.squeeze(spectrum); for a spectrum
\* of one frequency and one direction that is a 0-d array, and E[1:] raises
HsRaises(spectrum, freq, dir) ==
    IF Len(dir) <= 1 /\ NFreq(spectrum) = 1 THEN "IndexError" ELSE "no"

\* ------------------------------------------------------------- inflection
\* frequency_resolution(freq)
frequency_resolution(freq) ==
    IF Len(freq) > 1
    THEN [k \in 1..(Len(freq) - 1) |->
            IF freq[k + 1] >= freq[k] THEN freq[k + 1] - freq[k] ELSE freq[k] - freq[k + 1]]
    ELSE <<1000>>

\* 100 * np.hamming(n)[k], k = 1..n, for the window lengths 2 and 3
\* (0.54 - 0.46 cos(2 pi k / (n - 1)) is 0.08 at the ends and 1 in the middle)
Hamming100(n) == IF n = 2 THEN <<8, 8>> ELSE <<8, 100, 8>>

\* np.convolve(sf, np.hamming(nsmooth), "same"), times 100
Convolve(sf, nsmooth) ==
    LET at(i) == IF i \in 1..Len(sf) THEN sf[i] ELSE 0
        w == Hamming100(nsmooth)
    IN IF nsmooth = 2
       THEN [i \in 1..Len(sf) |-> FAdd(FMul(w[1], at(i)), FMul(w[2], at(i - 1)))]
       ELSE [i \in 1..Len(sf) |->
               FAdd(FAdd(FMul(w[1], at(i + 1)), FMul(w[2], at(i))), FMul(w[3], at(i - 1)))]

\* the smoothed, floored frequency spectrum inflection() differentiates
SmoothedSf(spectrum, freq, dfres, fmin) ==
    LET df == frequency_resolution(freq)
        sf0 == SumDir(spectrum)
        nsmooth == dfres \div df[1]
        sf1 == IF nsmooth > 1 THEN Convolve(sf0, nsmooth) ELSE sf0
    IN \* sf[(sf < 0) | (freq < fmin)] = 0
       [f \in 1..Len(freq) |-> IF FLt(sf1[f], 0) \/ freq[f] < fmin THEN 0 ELSE sf1[f]]

\* the indices numpy's argwhere(...) + 1 returns, ascending, 0-based as in numpy:
\* index i is a minimum when sf[i-1] > sf[i] < sf[i+1]
RECURSIVE AscendingSeq(_)
AscendingSeq(S) ==
    IF S = {} THEN << >>
    ELSE LET m == CHOOSE x \in S : \A y \in S : x <= y
         IN <<m>> \o AscendingSeq(S \ {m})

\* inflection(spectrum, freq, dfres, fmin): (imax, imin).  For one frequency
\* the code returns the integers 0, 0 and not arrays: isarray is FALSE.
inflection(spectrum, freq, dfres, fmin) ==
    IF Len(freq) > 1
    THEN LET sf == SmoothedSf(spectrum, freq, dfres, fmin)
             n == Len(freq)
         IN [isarray |-> TRUE,
             imax |-> AscendingSeq({k \in 1..(n - 2) :
                         FLt(sf[k], sf[k + 1]) /\ FGt(sf[k + 1], sf[k + 2])}),
             imin |-> AscendingSeq({k \in 1..(n - 2) :
                         FGt(sf[k], sf[k + 1]) /\ FLt(sf[k + 1], sf[k + 2])})]
    ELSE [isarray |-> FALSE, imax |-> << >>, imin |-> << >>]

\* ---------------------------------------------------------------- ranking
\* numpy's sort order on floats: a < b, with NaN after every number
NpLess(a, b) == IF IsNaN(a) THEN FALSE ELSE IF IsNaN(b) THEN TRUE ELSE a < b

\* partitions_hs_swell[1:].argsort() + 1: the labels 1..n in ascending order of
\* recorded Hs, equal keys in index order (numpy sorts short arrays by insertion)
ArgsortLabels(partitions_hs_swell, n) ==
    LET before(k, j) == \/ NpLess(partitions_hs_swell[k], partitions_hs_swell[j])
                        \/ /\ ~NpLess(partitions_hs_swell[j], partitions_hs_swell[k])
                           /\ k < j
        pos(j) == 1 + Cardinality({k \in 1..n : before(k, j)})
    IN [p \in 1..n |-> CHOOSE j \in 1..n : pos(j) = p]

\* the ascending argsort left as it is, np.flipud forgotten
FlipudForgotten(seq) == seq
\* np.flipud(seq)
Flipud(seq) == [p \in 1..Len(seq) |-> seq[Len(seq) + 1 - p]]

\* sorted_swells = np.flipud(partitions_hs_swell[1:].argsort() + 1)
SortedSwells(partitions_hs_swell, n) == Flipud(ArgsortLabels(partitions_hs_swell, n))

\* parts = np.concatenate(([0], sorted_swells[:swells]))
Parts(partitions_hs_swell, n, swells) ==
    LET sorted_swells == SortedSwells(partitions_hs_swell, n)
        keep == IF swells < n THEN swells ELSE n
    IN <<0>> \o SubSeq(sorted_swells, 1, keep)

\* nullspec = 0 * spectrum
Nullspec(spectrum) ==
    [f \in 1..NFreq(spectrum) |-> [d \in 1..NDir(spectrum) |-> FMul(0, spectrum[f][d])]]

\* lines 54-66: the partitions picked by rank, padded to swells + 1
AllParts(initial, part_array, partitions_hs_swell, n, spectrum, swells) ==
    LET parts == Parts(partitions_hs_swell, n, swells)
        picked == initial \o [p \in 1..Len(parts) |-> Where(part_array, parts[p], spectrum)]
        nmiss == (swells + 1) - Len(picked)
    IN IF Len(picked) < swells + 1
       THEN picked \o [p \in 1..nmiss |-> Nullspec(spectrum)]
       ELSE picked

\* ------------------------------------------------- labelling loop of nppart
\* part_spec_new[imin[0].squeeze():, :] = 0; newpart = part_spec_new > 0
Newpart(part_spec, imin0) ==
    {b \in Bins(part_spec) : (b[1] - 1) < imin0 /\ FGt(part_spec[b[1]][b[2]], 0)}

\* grid[mask] = value
SetBins(grid, mask, value) ==
    [f \in 1..NFreq(grid) |-> [d \in 1..NDir(grid) |->
        IF <<f, d>> \in mask THEN value ELSE grid[f][d]]]

\* partitions_hs_swell = np.zeros(part_array_max + 1)
ZerosHs(part_array_max) == [k \in 0..part_array_max |-> 0]

\* a sea label left in part_array, its bins not handed to label 0
MergeIntoSeaForgotten(part_array, ipeak) == part_array
\* part_array[part_array == ipeak] = 0
MergeIntoSea(part_array, ipeak) ==
    SetBins(part_array, {b \in Bins(part_array) : part_array[b[1]][b[2]] = ipeak}, 0)

\* One pass of "while ipeak <= part_array_max" (lines 31-52) on the locals st.
LoopBody(st, spectrum, freq, dir, windbool, wscut) ==
    LET ipeak == st.ipeak
        part_spec0 == Where(st.part_array, ipeak, spectrum)
        infl == inflection(part_spec0, freq, DFRES, FMIN)
        newpart == IF Len(infl.imin) > 0 THEN Newpart(part_spec0, infl.imin[1]) ELSE {}
        split == Len(infl.imin) > 0 /\ Cardinality(newpart) > MINBINS
        part_spec == IF split THEN SetBins(part_spec0, newpart, 0) ELSE part_spec0
        part_array_max == IF split THEN st.part_array_max + 1 ELSE st.part_array_max
        part_array1 == IF split THEN SetBins(st.part_array, newpart, part_array_max)
                       ELSE st.part_array
        hs1 == IF split
               THEN [k \in 0..part_array_max |->
                        IF k = part_array_max THEN 0 ELSE st.partitions_hs_swell[k]]
               ELSE st.partitions_hs_swell
        sea == WGtWscut(part_spec, windbool, wscut)
    IN IF ~infl.isarray
       THEN \* len(imin) with imin = 0: TypeError
            [st EXCEPT !.raised = "TypeError", !.visited = Append(st.visited, ipeak)]
       ELSE [part_array |-> IF sea THEN MergeIntoSea(part_array1, ipeak) ELSE part_array1,
             part_array_max |-> part_array_max,
             partitions_hs_swell |-> IF sea THEN hs1
                                     ELSE [hs1 EXCEPT ![ipeak] = hs(part_spec, freq, dir, TRUE)],
             sealabels |-> IF sea THEN st.sealabels \cup {ipeak} ELSE st.sealabels,
             nsplit |-> IF split THEN st.nsplit + 1 ELSE st.nsplit,
             visited |-> Append(st.visited, ipeak),
             ipeak |-> ipeak + 1,
             parts |-> st.parts,
             raised |-> st.raised]

\* lines 19-29: the locals of nppart before the loop
NppartLocals(labels) ==
    [part_array |-> labels,
     part_array_max |-> ArrayMax(labels),
     partitions_hs_swell |-> ZerosHs(ArrayMax(labels)),
     sealabels |-> {},
     nsplit |-> 0,
     visited |-> << >>,
     ipeak |-> 1,
     parts |-> << >>,
     raised |-> "no"]

\* ------------------------------------------------------------------ state
VARIABLES
    freq,        \* dset.freq, mHz, ascending
    dir,         \* dset.dir, degrees
    efth,        \* dset.efth: one freq x dir grid per spectrum of the dataset
    wspd,        \* dset.wspd: one wind speed (m/s) per spectrum
    wdir,        \* dset.wdir: one wind direction (degrees) per spectrum
    dpt,         \* dset.dpt: one depth per spectrum
    labels,      \* what specpart.partition answers for each spectrum
    swells,      \* the swells argument
    method,      \* the entry point called: "none" before the call
    args,        \* the other arguments of the call
    status,      \* "idle", "running", "returned" or the exception raised
    pc,          \* per spectrum: where its nppart call is
    loc,         \* per spectrum: the locals of its nppart call
    all_parts,   \* per spectrum: what its nppart call returned
    dsout,       \* what a Partition method returned: its freq axis and, per
                 \* spectrum, its partitions along "part"
    ret          \* what a direct call of hs() or inflection() returned or raised

vars == <<freq, dir, efth, wspd, wdir, dpt, labels, swells, method, args, status,
          pc, loc, all_parts, dsout, ret>>
inputs == <<freq, dir, efth, wspd, wdir, dpt, labels, swells>>

Spectra == 1..Len(efth)

\* ------------------------------------------------------------ input sets
\* the direction axis: the full circle in steps of 30 degrees
DirAxis == <<0, 30, 60, 90, 120, 150, 180, 210, 240, 270, 300, 330>>
\* the frequency axes: 0.04 .. 0.34 Hz in steps of 0.1 Hz, one single bin, and
\* two bins of short waves (the celerity at 1.201 Hz is 1.3 m/s exactly)
FreqAxes == {<<40, 140, 240, 340>>, <<40>>, <<601, 1201>>}
\* wind speed (m/s) and direction (degrees): calm, a gale from 0, a gale from
\* 180, a light air from 0
Winds == {<<0, 0>>, <<30, 0>>, <<30, 180>>, <<1, 0>>}
\* directional shapes: energy in every direction, or in the half circle below 180
DirShapes == {[d \in 1..Len(DirAxis) |-> 1],
              [d \in 1..Len(DirAxis) |-> IF DirAxis[d] < 180 THEN 1 ELSE 0]}

\* the spectra: a frequency profile times a directional shape, or all NaN
SpectraOn(fax) ==
    {[f \in 1..Len(fax) |-> [d \in 1..Len(DirAxis) |-> prof[f] * shape[d]]] :
        prof \in [1..Len(fax) -> 0..MaxE], shape \in DirShapes}
    \cup {[f \in 1..Len(fax) |-> [d \in 1..Len(DirAxis) |-> NaN]]}

\* label grids a watershed can answer (0 = background, 1..K = basins):
\* nothing, one basin, two basins cut at a frequency (numbered either way),
\* two basins cut at 180 degrees, background below 180 degrees, three basins
LabelGridsOn(fax) ==
    LET nf == Len(fax)
        nd == Len(DirAxis)
        G(fn(_, _)) == [f \in 1..nf |-> [d \in 1..nd |-> fn(f, d)]]
        zero(f, d) == 0
        one(f, d) == 1
        bydir(f, d) == IF DirAxis[d] < 180 THEN 1 ELSE 2
        bgdir(f, d) == IF DirAxis[d] < 180 THEN 0 ELSE 1
        three(f, d) == IF f = 1 THEN 1 ELSE IF DirAxis[d] < 180 THEN 2 ELSE 3
    IN {G(zero), G(one), G(bydir), G(bgdir)}
       \cup (IF nf > 1 THEN {G(three)} ELSE {})
       \cup {[f \in 1..nf |-> [d \in 1..nd |-> IF f <= c THEN 1 ELSE 2]] : c \in 1..(nf - 1)}
       \cup {[f \in 1..nf |-> [d \in 1..nd |-> IF f <= c THEN 2 ELSE 1]] : c \in 1..(nf - 1)}

\* a dataset of one spectrum
InitOne ==
    /\ freq \in FreqAxes
    /\ dir = DirAxis
    /\ \E e \in SpectraOn(freq), w \in Winds, l \in LabelGridsOn(freq) :
          /\ efth = <<e>>
          /\ wspd = <<w[1]>>
          /\ wdir = <<w[2]>>
          /\ dpt = <<1000>>
          /\ labels = <<l>>
    /\ swells \in 0..MaxSwells

InitCalls ==
    /\ method = "none"
    /\ args = [none |-> TRUE]
    /\ status = "idle"
    /\ pc = [i \in Spectra |-> "idle"]
    /\ loc = [i \in Spectra |-> NppartLocals(labels[i])]
    /\ all_parts = [i \in Spectra |-> << >>]
    /\ dsout = [freq |-> << >>, part |-> [i \in Spectra |-> << >>]]
    /\ ret = [fn |-> "none", raised |-> "no", value |-> 0]

\* a dataset of two spectra on the four-bin axis; the watershed is a function
\* of the spectrum, so equal spectra carry equal label grids
BatchItems ==
    LET fax == <<40, 140, 240, 340>>
        full(prof) == [f \in 1..4 |-> [d \in 1..Len(DirAxis) |-> prof[f]]]
        lab(fn(_, _)) == [f \in 1..4 |-> [d \in 1..Len(DirAxis) |-> fn(f, d)]]
        one(f, d) == 1
        bydir(f, d) == IF DirAxis[d] < 180 THEN 1 ELSE 2
        cut(f, d) == IF f <= 2 THEN 2 ELSE 1
    IN {[e |-> full(<<1, 1, 0, 1>>), l |-> lab(one)],
        [e |-> full(<<1, 1, 1, 1>>), l |-> lab(bydir)],
        [e |-> full(<<0, 1, 1, 0>>), l |-> lab(cut)],
        [e |-> full(<<NaN, NaN, NaN, NaN>>), l |-> lab(one)]}

InitTwo ==
    /\ freq = <<40, 140, 240, 340>>
    /\ dir = DirAxis
    /\ \E a \in BatchItems, b \in BatchItems, wa \in Winds, wb \in Winds :
          /\ efth = <<a.e, b.e>>
          /\ wspd = <<wa[1], wb[1]>>
          /\ wdir = <<wa[2], wb[2]>>
          /\ dpt = <<1000, 1000>>
          /\ labels = <<a.l, b.l>>
    /\ swells \in 0..MaxSwells

Init == (InitOne \/ InitTwo) /\ InitCalls

\* ----------------------------------------------------- watershed.partition
\* windbool of the nppart call on spectrum i (lines 21-24); the wind and depth
\* handed to nppart are dset.wspd, dset.wdir and dset.dpt (lines 113-115)
windbool(i) == NppartWindbool(freq, dir, wspd[i], wdir[i], dpt[i], AGEFAC)

\* how wspd, wdir or dpt is given to partition(): as the default variable name,
\* as the name of another variable of dset, or as a DataArray
Givens == {"name", "othername", "DataArray"}
\* the values of hs_min tried, mm: the default and 30 m
HsMins == {HS_MIN, 30000}
\* what dset[key] raises for a key that is a DataArray (xarray refuses the key
\* as unsupported, or looks its values up as names)
LookupErrors == {"KeyError", "ValueError"}

\* partition(dset, wspd, wdir, dpt, swells, agefac, wscut, hs_min), lines 99-129.
\* isinstance("wspd", str) tests the literal and is always true, so every argument
\* is looked up in dset, whatever it is; apply_ufunc(nppart, dset.efth, ...,
\* dset.wspd, dset.wdir, dset.dpt, swells, agefac, wscut) then hands every
\* spectrum of the dataset to a worker.  hs_min is not read.
Partition(wspd_given, wdir_given, dpt_given, hs_min) ==
    /\ method = "none"
    /\ method' = "partition"
    /\ args' = [wspd |-> wspd_given, wdir |-> wdir_given, dpt |-> dpt_given,
                hs_min |-> hs_min]
    /\ IF "DataArray" \in {wspd_given, wdir_given, dpt_given}
       THEN /\ status' \in LookupErrors
            /\ UNCHANGED pc
       ELSE /\ status' = "running"
            /\ pc' = [i \in Spectra |-> "call"]
    /\ UNCHANGED <<inputs, ret, loc, all_parts, dsout>>

\* all_parts kept between calls (a module-level or default-argument list): a
\* call starts from what a finished call left in it
SharedAllParts(i) ==
    IF \E j \in Spectra : j # i /\ pc[j] = "done"
    THEN all_parts[CHOOSE j \in Spectra : j # i /\ pc[j] = "done"]
    ELSE << >>
\* all_parts = [] (line 17)
NewAllParts(i) == << >>

\* nppart, lines 17-29
NppartEnter(i) ==
    /\ pc[i] = "call"
    /\ loc' = [loc EXCEPT ![i] = NppartLocals(labels[i])]
    /\ all_parts' = [all_parts EXCEPT ![i] = NewAllParts(i)]
    /\ pc' = [pc EXCEPT ![i] = "loop"]
    /\ UNCHANGED <<inputs, ret, method, args, status, dsout>>

\* nppart, lines 30-52: one pass of the while loop
NppartLoop(i) ==
    /\ pc[i] = "loop"
    /\ loc[i].ipeak <= loc[i].part_array_max
    /\ LET st == LoopBody(loc[i], efth[i], freq, dir, windbool(i), WSCUT)
       IN /\ loc' = [loc EXCEPT ![i] = st]
          /\ pc' = [pc EXCEPT ![i] = IF st.raised = "no" THEN "loop" ELSE "raised"]
    /\ UNCHANGED <<inputs, ret, method, args, status, all_parts, dsout>>

\* nppart, lines 54-66: rank, pick, pad and return
NppartReturn(i) ==
    /\ pc[i] = "loop"
    /\ loc[i].ipeak > loc[i].part_array_max
    /\ all_parts' = [all_parts EXCEPT ![i] =
          AllParts(all_parts[i], loc[i].part_array, loc[i].partitions_hs_swell,
                   loc[i].part_array_max, efth[i], swells)]
    /\ loc' = [loc EXCEPT ![i].parts =
          Parts(loc[i].partitions_hs_swell, loc[i].part_array_max, swells)]
    /\ pc' = [pc EXCEPT ![i] = "done"]
    /\ UNCHANGED <<inputs, ret, method, args, status, dsout>>

\* partition, lines 131-136: every worker is back
PartitionReturn ==
    /\ method = "partition"
    /\ status = "running"
    /\ \A i \in Spectra : pc[i] \in {"done", "raised"}
    /\ status' = IF \E i \in Spectra : pc[i] = "raised" THEN "TypeError" ELSE "returned"
    /\ UNCHANGED <<inputs, ret, method, args, pc, loc, all_parts, dsout>>

\* ------------------------------------------------ partition.py: Partition
\* the coordinates a wind or depth argument is given on: those of the spectra,
\* or another grid
Coords == {"dset", "other"}

\* check_same_coordinates(wspd, wdir, dpt) of wavespectra.core.utils: the three
\* arguments are compared with one another
check_same_coordinates(cw, cd, cp) == cw = cd /\ cd = cp

\* the per-spectrum function of spectrum i run to its end
RECURSIVE RunLoop(_, _)
RunLoop(st, i) ==
    IF st.raised # "no" \/ st.ipeak > st.part_array_max THEN st
    ELSE RunLoop(LoopBody(st, efth[i], freq, dir, windbool(i), WSCUT), i)

\* nppart(spectrum, freq, dir, wspd, wdir, dpt, swells, agefac, wscut) as a function
NppartResult(i) ==
    LET st == RunLoop(NppartLocals(labels[i]), i)
    IN [raised |-> st.raised,
        all_parts |-> IF st.raised # "no" THEN << >>
                      ELSE AllParts(<< >>, st.part_array, st.partitions_hs_swell,
                                    st.part_array_max, efth[i], swells)]

\* Partition.ptm1, line 56: check_same_coordinates(wspd, wdir, dpt)
Ptm1Check(cw, cd, cp) ==
    /\ method = "none"
    /\ method' = "ptm1"
    /\ args' = [wspd |-> cw, wdir |-> cd, dpt |-> cp]
    /\ status' = IF check_same_coordinates(cw, cd, cp) THEN "running" ELSE "ValueError"
    /\ UNCHANGED <<inputs, ret, pc, loc, all_parts, dsout>>

\* Partition.ptm1, lines 65-84: xr.apply_ufunc(np_ptm1, ...) hands every spectrum
\* to the per-spectrum routine.  Wind given on another grid is either broadcast
\* against the spectra or refused by the alignment of apply_ufunc.
Ptm1Apply ==
    /\ method = "ptm1"
    /\ status = "running"
    /\ \A i \in Spectra : pc[i] = "idle"
    /\ \/ /\ pc' = [i \in Spectra |-> "call"]
          /\ UNCHANGED status
       \/ /\ args.wspd # "dset"
          /\ status' = "ValueError"
          /\ UNCHANGED pc
    /\ UNCHANGED <<inputs, ret, method, args, loc, all_parts, dsout>>

\* Partition.ptm1, lines 86-91: the part coordinate 0..swells and the return
Ptm1Return ==
    /\ method = "ptm1"
    /\ status = "running"
    /\ \A i \in Spectra : pc[i] \in {"done", "raised"}
    /\ IF \E i \in Spectra : pc[i] = "raised"
       THEN status' = "TypeError" /\ UNCHANGED dsout
       ELSE /\ status' = "returned"
            /\ dsout' = [freq |-> freq, part |-> all_parts]
    /\ UNCHANGED <<inputs, ret, method, args, pc, loc, all_parts>>

\* Partition.ptm2, lines 93-110: the body is "pass", the call returns None
Ptm2 ==
    /\ method = "none"
    /\ method' = "ptm2"
    /\ status' = "returned"
    /\ UNCHANGED <<inputs, ret, args, pc, loc, all_parts, dsout>>

\* dsout.where(mask): the value where the mask holds, NaN elsewhere
XrWhere(grid, mask) ==
    [f \in 1..NFreq(grid) |-> [d \in 1..NDir(grid) |->
        IF mask[f][d] THEN grid[f][d] ELSE NaN]]
\* dsout.fillna(0.)
Fillna(grid) ==
    [f \in 1..NFreq(grid) |-> [d \in 1..NDir(grid) |->
        IF IsNaN(grid[f][d]) THEN 0 ELSE grid[f][d]]]
\* ~mask
MaskNot(mask) == [f \in 1..Len(mask) |-> [d \in 1..Len(mask[f]) |-> ~mask[f][d]]]

\* Partition.ptm4, lines 184-186:
\* windseamask = celerity(dsout.freq, dpt) <= agefac * wspd * np.cos(D2R * (dsout.dir - wdir))
Ptm4Windseamask(fax, dax, wspd_i, wdir_i, dpt_i, agefac) ==
    LET wind_speed_component == WindSpeedComponent(agefac, wspd_i, dax, wdir_i)
        wave_celerity == celerity(fax, dpt_i)
    IN [f \in 1..Len(fax) |-> [d \in 1..Len(dax) |->
          wave_celerity[f] <= wind_speed_component[d]]]

\* swell masked like sea, the "~" forgotten
Ptm4PartsSameMask(spectrum, windseamask) ==
    <<Fillna(XrWhere(spectrum, windseamask)), Fillna(XrWhere(spectrum, windseamask))>>
\* Partition.ptm4, lines 189-196: sea, swell, concat along part, fillna(0.)
Ptm4Parts(spectrum, windseamask) ==
    LET sea == XrWhere(spectrum, windseamask)
        swell == XrWhere(spectrum, MaskNot(windseamask))
    IN <<Fillna(sea), Fillna(swell)>>

\* the age factors tried, in tenths: 1.0, 1.3 and the default 1.7
Agefacs == {10, 13, AGEFAC}

\* Partition.ptm4(dset, wspd, wdir, dpt, agefac): no check of the coordinates;
\* xarray broadcasts wind given on another grid against the spectra
Ptm4(cw, cd, cp, agefac) ==
    /\ method = "none"
    /\ method' = "ptm4"
    /\ args' = [wspd |-> cw, wdir |-> cd, dpt |-> cp, agefac |-> agefac]
    /\ dsout' = [freq |-> freq,
                 part |-> [i \in Spectra |->
                    Ptm4Parts(efth[i],
                              Ptm4Windseamask(freq, dir, wspd[i], wdir[i], dpt[i], agefac))]]
    /\ status' = "returned"
    /\ UNCHANGED <<inputs, ret, pc, loc, all_parts>>

\* sorted(set(dset.freq.values).union([fcut]))
UnionFreqs(fax, fcut) == AscendingSeq({fax[k] : k \in 1..Len(fax)} \cup {fcut})

\* regrid_spec(dset, freq=freqs) of wavespectra.core.utils: linear interpolation
\* along freq (rounded down), NaN outside the axis
RegridSpec(spectrum, fax, freqs) ==
    [f \in 1..Len(freqs) |-> [d \in 1..NDir(spectrum) |->
        IF \E k \in 1..Len(fax) : fax[k] = freqs[f]
        THEN spectrum[CHOOSE k \in 1..Len(fax) : fax[k] = freqs[f]][d]
        ELSE IF freqs[f] < fax[1] \/ freqs[f] > fax[Len(fax)] THEN NaN
        ELSE LET k == CHOOSE k \in 1..(Len(fax) - 1) : fax[k] < freqs[f] /\ freqs[f] < fax[k + 1]
                 lo == spectrum[k][d]
                 hi == spectrum[k + 1][d]
             IN IF IsNaN(lo) \/ IsNaN(hi) THEN NaN
                ELSE (lo * (fax[k + 1] - freqs[f]) + hi * (freqs[f] - fax[k]))
                        \div (fax[k + 1] - fax[k])]]

\* Partition.ptm5, lines 217-223: the axis and grid that are split
Ptm5Freqs(fax, fcut, interpolate) ==
    IF interpolate /\ Len(UnionFreqs(fax, fcut)) > Len(fax) THEN UnionFreqs(fax, fcut) ELSE fax
Ptm5Grid(spectrum, fax, fcut, interpolate) ==
    IF interpolate /\ Len(UnionFreqs(fax, fcut)) > Len(fax)
    THEN RegridSpec(spectrum, fax, UnionFreqs(fax, fcut))
    ELSE spectrum

\* dsout.freq > fcut: the cutoff bin kept out of the high-frequency partition
Ptm5HfMaskStrict(fax, nd, fcut) == [f \in 1..Len(fax) |-> [d \in 1..nd |-> fax[f] > fcut]]
\* Partition.ptm5, lines 226-227: dsout.freq >= fcut and dsout.freq <= fcut
Ptm5HfMask(fax, nd, fcut) == [f \in 1..Len(fax) |-> [d \in 1..nd |-> fax[f] >= fcut]]
Ptm5LfMask(fax, nd, fcut) == [f \in 1..Len(fax) |-> [d \in 1..nd |-> fax[f] <= fcut]]

\* Partition.ptm5, lines 226-233: hf, lf, concat along part, fillna(0.)
Ptm5Parts(grid, fax, fcut) ==
    LET hf == XrWhere(grid, Ptm5HfMask(fax, NDir(grid), fcut))
        lf == XrWhere(grid, Ptm5LfMask(fax, NDir(grid), fcut))
    IN <<Fillna(hf), Fillna(lf)>>

\* the cutoffs tried (mHz): below the axis, on a coordinate, between two
\* coordinates, above the axis
Fcuts == {20, 140, 190, 400}

\* Partition.ptm5(dset, fcut, interpolate)
Ptm5(fcut, interpolate) ==
    /\ method = "none"
    /\ method' = "ptm5"
    /\ args' = [fcut |-> fcut, interpolate |-> interpolate]
    /\ dsout' = [freq |-> Ptm5Freqs(freq, fcut, interpolate),
                 part |-> [i \in Spectra |->
                    Ptm5Parts(Ptm5Grid(efth[i], freq, fcut, interpolate),
                              Ptm5Freqs(freq, fcut, interpolate), fcut)]]
    /\ status' = "returned"
    /\ UNCHANGED <<inputs, ret, pc, loc, all_parts>>

Next ==
    \/ Partition("name", "name", "name", HS_MIN)
    \/ \E i \in Spectra : NppartEnter(i)
    \/ \E i \in Spectra : NppartLoop(i)
    \/ \E i \in Spectra : NppartReturn(i)
    \/ PartitionReturn

Spec == Init /\ [][Next]_vars

\* partition() called with its arguments given in every way, on a dataset of
\* one spectrum
InitCall ==
    /\ freq = <<40, 140, 240, 340>>
    /\ dir = DirAxis
    /\ \E a \in BatchItems, w \in Winds :
          /\ efth = <<a.e>>
          /\ wspd = <<w[1]>>
          /\ wdir = <<w[2]>>
          /\ dpt = <<1000>>
          /\ labels = <<a.l>>
    /\ swells \in 0..MaxSwells
    /\ InitCalls

NextCall ==
    \/ \E gw \in Givens, gd \in Givens, gp \in Givens, hs_min \in HsMins :
          Partition(gw, gd, gp, hs_min)
    \/ \E i \in Spectra : NppartEnter(i)
    \/ \E i \in Spectra : NppartLoop(i)
    \/ \E i \in Spectra : NppartReturn(i)
    \/ PartitionReturn

SpecCall == InitCall /\ [][NextCall]_vars

\* ------------------------------------------- hs and inflection called alone
\* the axes: those of the datasets, and one that ends at 0.333 Hz
FnFreqAxes == FreqAxes \cup {<<133, 233, 333>>}
\* the full circle, or one direction bin
FnDirAxes == {DirAxis, <<0>>}
\* the spectra on the axes: those of the datasets, or a column of one direction
FnSpectra(fax, dax) ==
    IF Len(dax) > 1 THEN SpectraOn(fax)
    ELSE {[f \in 1..Len(fax) |-> <<prof[f]>>] : prof \in [1..Len(fax) -> {NaN} \cup 0..MaxE]}

InitFn ==
    /\ freq \in FnFreqAxes
    /\ dir \in FnDirAxes
    /\ \E e \in FnSpectra(freq, dir) : efth = <<e>>
    /\ wspd = <<0>>
    /\ wdir = <<0>>
    /\ dpt = <<1000>>
    /\ labels = <<[f \in 1..Len(freq) |-> [d \in 1..Len(dir) |-> 0]]>>
    /\ swells = 0
    /\ InitCalls

\* hs(spectrum, freq, dir, tail)
HsCall(tail) ==
    /\ method = "none"
    /\ method' = "hs"
    /\ args' = [tail |-> tail]
    /\ ret' = IF HsRaises(efth[1], freq, dir) # "no"
              THEN [fn |-> "hs", raised |-> HsRaises(efth[1], freq, dir), value |-> 0]
              ELSE [fn |-> "hs", raised |-> "no", value |-> hs(efth[1], freq, dir, tail)]
    /\ status' = IF HsRaises(efth[1], freq, dir) # "no" THEN HsRaises(efth[1], freq, dir)
                 ELSE "returned"
    /\ UNCHANGED <<inputs, pc, loc, all_parts, dsout>>

\* inflection(spectrum, freq, dfres=0.01, fmin=0.05)
InflectionCall ==
    /\ method = "none"
    /\ method' = "inflection"
    /\ args' = [dfres |-> DFRES, fmin |-> FMIN]
    /\ ret' = [fn |-> "inflection", raised |-> "no",
               value |-> inflection(efth[1], freq, DFRES, FMIN)]
    /\ status' = "returned"
    /\ UNCHANGED <<inputs, pc, loc, all_parts, dsout>>

NextFn ==
    \/ \E tail \in BOOLEAN : HsCall(tail)
    \/ InflectionCall

SpecFn == InitFn /\ [][NextFn]_vars

\* the datasets the Partition methods are called on: one spectrum, and the
\* label grids np_ptm1 may get from the watershed
InitPtm ==
    /\ freq \in FreqAxes
    /\ dir = DirAxis
    /\ \E e \in SpectraOn(freq), w \in Winds :
          /\ efth = <<e>>
          /\ wspd = <<w[1]>>
          /\ wdir = <<w[2]>>
          /\ dpt = <<1000>>
    /\ labels = <<[f \in 1..Len(freq) |-> [d \in 1..Len(DirAxis) |-> 1]]>>
    /\ swells \in 0..MaxSwells
    /\ InitCalls

NextPtm ==
    \/ \E cw \in Coords, cd \in Coords, cp \in Coords : Ptm1Check(cw, cd, cp)
    \/ Ptm1Apply
    \/ \E i \in Spectra : NppartEnter(i)
    \/ \E i \in Spectra : NppartLoop(i)
    \/ \E i \in Spectra : NppartReturn(i)
    \/ Ptm1Return
    \/ Ptm2
    \/ \E cw \in Coords, cd \in Coords, cp \in Coords, agefac \in Agefacs :
          Ptm4(cw, cd, cp, agefac)
    \/ \E fcut \in Fcuts, interpolate \in BOOLEAN : Ptm5(fcut, interpolate)

SpecPtm == InitPtm /\ [][NextPtm]_vars

\* ================================================================= claims
Done(i) == pc[i] = "done"
\* the labels nppart ranked: 1 .. the final part_array_max
Labels(i) == 1..loc[i].part_array_max
\* the label in swell slot s of a finished call, for s = 1 .. number of slots filled by rank
RankedSlots(i) == 1..(Len(loc[i].parts) - 1)
SlotLabel(i, s) == loc[i].parts[s + 1]
\* partition s (0 = sea) of a finished call
Slot(i, s) == all_parts[i][s + 1]
RecordedHs(i, k) == loc[i].partitions_hs_swell[k]
IsZeroGrid(g, like) ==
    /\ NFreq(g) = NFreq(like)
    /\ \A f \in 1..NFreq(g) : Len(g[f]) = NDir(like) /\ \A d \in 1..Len(g[f]) : g[f][d] = 0
NaNFree(g) == \A b \in Bins(g) : ~IsNaN(g[b[1]][b[2]])
HasEnergy(g) == \E b \in Bins(g) : FGt(g[b[1]][b[2]], 0)

\* C1: every nppart call returns, and returns exactly swells + 1 partitions;
\* the slots beyond the number of labels are all-zero spectra of the input's shape.
\* (Stated for the spectra of finite values, where it already fails.)
C1_ReturnsSwellsPlusOne ==
    \A i \in Spectra : NaNFree(efth[i]) =>
        /\ pc[i] # "raised"
        /\ Done(i) =>
              /\ Len(all_parts[i]) = swells + 1
              /\ \A s \in 1..swells :
                    s > loc[i].part_array_max => IsZeroGrid(Slot(i, s), efth[i])

SumOfParts(i, f, d) == FSumSeq([s \in 1..Len(all_parts[i]) |-> all_parts[i][s][f][d]])
\* the labels whose bins are returned: 0 and the ranked labels kept
KeptLabels(i) == {loc[i].parts[p] : p \in 1..Len(loc[i].parts)}

\* C3: for a spectrum of finite non-negative values the returned partitions are
\* pairwise disjoint in their non-zero bins; their sum is the spectrum at the bins
\* whose final label is 0 or a kept label and 0 at the others; with at most
\* swells labels the sum is the whole spectrum.
C3_DisjointAndSum ==
    \A i \in Spectra : (Done(i) /\ NaNFree(efth[i])) =>
        /\ \A b \in Bins(efth[i]) :
              /\ \A s \in 1..Len(all_parts[i]), t \in 1..Len(all_parts[i]) :
                    (s # t /\ all_parts[i][s][b[1]][b[2]] # 0) => all_parts[i][t][b[1]][b[2]] = 0
              /\ SumOfParts(i, b[1], b[2]) =
                    IF loc[i].part_array[b[1]][b[2]] \in KeptLabels(i)
                    THEN efth[i][b[1]][b[2]] ELSE 0
        /\ loc[i].part_array_max <= swells =>
              \A b \in Bins(efth[i]) : SumOfParts(i, b[1], b[2]) = efth[i][b[1]][b[2]]

\* C3 witness: a finished call that split a basin, kept a swell with energy and
\* dropped the energy of a label ranked beyond swells.
C3_Witness ==
    \E i \in Spectra :
        /\ Done(i) /\ NaNFree(efth[i])
        /\ loc[i].nsplit > 0
        /\ \E s \in RankedSlots(i) : HasEnergy(Slot(i, s))
        /\ \E b \in Bins(efth[i]) :
              /\ efth[i][b[1]][b[2]] > 0
              /\ loc[i].part_array[b[1]][b[2]] \notin KeptLabels(i)

\* C4: when there are labels and every one of them, split-created ones included,
\* had W > wscut, every swell slot is all-zero and slot 0 is the input spectrum
\* bin for bin.
C4_AllSeaGoesToSlot0 ==
    \A i \in Spectra : (Done(i) /\ Labels(i) # {} /\ loc[i].sealabels = Labels(i)) =>
        /\ \A s \in 1..swells : IsZeroGrid(Slot(i, s), efth[i])
        /\ Slot(i, 0) = efth[i]

\* C4 witness: a finished call with swell slots requested whose basin was split
\* and whose labels all went to the sea.
C4_Witness ==
    \E i \in Spectra :
        /\ Done(i) /\ swells >= 1
        /\ loc[i].nsplit > 0
        /\ loc[i].sealabels = Labels(i)
        /\ HasEnergy(efth[i])

\* ------------------------------------------------------------ PTM4, PTM5
Returned(m) == method = m /\ status = "returned"
\* the wind-sea test of PTM4 at bin (f, d) of spectrum i: celerity <= wind component
IsWindSea(i, f, d) ==
    celerity(freq, dpt[i])[f] <= WindSpeedComponent(args.agefac, wspd[i], dir, wdir[i])[d]

\* C5 (as claimed): ptm4 returns two partitions (sea, swell); at every bin one of
\* them holds the input value and the other 0 - the sea where the bin is wind sea,
\* the swell elsewhere - so they sum to the input spectrum.
C5_TwoWaySplitOfAnySpectrum ==
    Returned("ptm4") => \A i \in Spectra :
        /\ Len(dsout.part[i]) = 2
        /\ \A b \in Bins(efth[i]) :
              LET v == efth[i][b[1]][b[2]]
                  sea == dsout.part[i][1][b[1]][b[2]]
                  swell == dsout.part[i][2][b[1]][b[2]]
              IN /\ IF IsWindSea(i, b[1], b[2]) THEN sea = v /\ swell = 0
                                                ELSE sea = 0 /\ swell = v
                 /\ FAdd(sea, swell) = v

\* C5 (amended): the same at every bin whose input value is a number; a NaN bin
\* is 0 in both partitions.
C5_TwoWaySplitOfNumbers ==
    Returned("ptm4") => \A i \in Spectra :
        /\ Len(dsout.part[i]) = 2
        /\ \A b \in Bins(efth[i]) :
              LET v == efth[i][b[1]][b[2]]
                  sea == dsout.part[i][1][b[1]][b[2]]
                  swell == dsout.part[i][2][b[1]][b[2]]
              IN IF IsNaN(v) THEN sea = 0 /\ swell = 0
                 ELSE /\ IF IsWindSea(i, b[1], b[2]) THEN sea = v /\ swell = 0
                                                     ELSE sea = 0 /\ swell = v
                      /\ sea + swell = v

\* C5 witness: ptm4 returned a sea and a swell that both hold energy.
C5_Witness ==
    /\ Returned("ptm4")
    /\ \E i \in Spectra : HasEnergy(dsout.part[i][1]) /\ HasEnergy(dsout.part[i][2])

\* the index on the input axis of output frequency f, 0 when it is a new coordinate
InputIndex(f) ==
    IF \E k \in 1..Len(freq) : freq[k] = dsout.freq[f]
    THEN CHOOSE k \in 1..Len(freq) : freq[k] = dsout.freq[f]
    ELSE 0

\* C6 (as claimed): partition 0 holds the input values at frequencies >= fcut and
\* 0 elsewhere, partition 1 the input values at frequencies <= fcut and 0
\* elsewhere; a bin at fcut is whole in both, any other bin is in one only.
C6_CutoffSplitOfAnySpectrum ==
    Returned("ptm5") => \A i \in Spectra :
        /\ Len(dsout.part[i]) = 2
        /\ \A k \in 1..Len(freq) : \E f \in 1..Len(dsout.freq) : dsout.freq[f] = freq[k]
        /\ \A f \in 1..Len(dsout.freq), d \in 1..Len(dir) :
              LET hf == dsout.part[i][1][f][d]
                  lf == dsout.part[i][2][f][d]
              IN /\ dsout.freq[f] = args.fcut => hf = lf
                 /\ dsout.freq[f] < args.fcut => hf = 0
                 /\ dsout.freq[f] > args.fcut => lf = 0
                 /\ InputIndex(f) # 0 =>
                       LET v == efth[i][InputIndex(f)][d]
                       IN /\ dsout.freq[f] >= args.fcut => hf = v
                          /\ dsout.freq[f] <= args.fcut => lf = v

\* C6 (amended): the same with the input value of a NaN bin read as 0.
C6_CutoffSplitOfNumbers ==
    Returned("ptm5") => \A i \in Spectra :
        /\ Len(dsout.part[i]) = 2
        /\ \A k \in 1..Len(freq) : \E f \in 1..Len(dsout.freq) : dsout.freq[f] = freq[k]
        /\ \A f \in 1..Len(dsout.freq), d \in 1..Len(dir) :
              LET hf == dsout.part[i][1][f][d]
                  lf == dsout.part[i][2][f][d]
              IN /\ dsout.freq[f] = args.fcut => hf = lf
                 /\ dsout.freq[f] < args.fcut => hf = 0
                 /\ dsout.freq[f] > args.fcut => lf = 0
                 /\ InputIndex(f) # 0 =>
                       LET v == IF IsNaN(efth[i][InputIndex(f)][d]) THEN 0
                                ELSE efth[i][InputIndex(f)][d]
                       IN /\ dsout.freq[f] >= args.fcut => hf = v
                          /\ dsout.freq[f] <= args.fcut => lf = v

\* C6 witness: fcut is a frequency coordinate of the input, the bins there hold
\* energy and are in both partitions, and each partition holds energy elsewhere.
C6_Witness ==
    /\ Returned("ptm5")
    /\ \E i \in Spectra, f \in 1..Len(dsout.freq) :
          /\ dsout.freq[f] = args.fcut /\ InputIndex(f) # 0
          /\ \E d \in 1..Len(dir) :
                dsout.part[i][1][f][d] > 0 /\ dsout.part[i][2][f][d] > 0
          /\ \E g \in 1..Len(dsout.freq), d \in 1..Len(dir) :
                dsout.freq[g] > args.fcut /\ dsout.part[i][1][g][d] > 0
          /\ \E g \in 1..Len(dsout.freq), d \in 1..Len(dir) :
                dsout.freq[g] < args.fcut /\ dsout.part[i][2][g][d] > 0

\* ------------------------------------------------------- wind-sea mask
\* C11: for the axes, wind and agefac ptm4 was called with, the mask of nppart
\* and the mask of ptm4 are both "celerity <= agefac * wspd * cos(dir - wdir)" at
\* every bin, equality counted as wind sea, and so are the same mask.
C11_SameMaskInBothMethods ==
    Returned("ptm4") => \A i \in Spectra : \A f \in 1..Len(freq), d \in 1..Len(dir) :
        LET wave_celerity == celerity(freq, dpt[i])[f]
            Up == WindSpeedComponent(args.agefac, wspd[i], dir, wdir[i])[d]
            ptm1mask == NppartWindbool(freq, dir, wspd[i], wdir[i], dpt[i], args.agefac)
            ptm4mask == Ptm4Windseamask(freq, dir, wspd[i], wdir[i], dpt[i], args.agefac)
        IN /\ ptm4mask[f][d] = (wave_celerity <= Up)
           /\ ptm1mask[f][d] = (wave_celerity <= Up)
           /\ ptm1mask[f][d] = ptm4mask[f][d]

\* the two masks agree at every bin where celerity and wind component differ
C11_SameMaskOffEquality ==
    Returned("ptm4") => \A i \in Spectra : \A f \in 1..Len(freq), d \in 1..Len(dir) :
        celerity(freq, dpt[i])[f] # WindSpeedComponent(args.agefac, wspd[i], dir, wdir[i])[d]
        => NppartWindbool(freq, dir, wspd[i], wdir[i], dpt[i], args.agefac)[f][d]
            = Ptm4Windseamask(freq, dir, wspd[i], wdir[i], dpt[i], args.agefac)[f][d]

\* ------------------------------------------------- arguments of partition
\* Hs < hs_min, for hs() returned as 4000 * Etot = 250 * Hs^2 and hs_min in mm
BelowHsMin(hs4000, hs_min) == ~IsNaN(hs4000) /\ 4000 * hs4000 < hs_min * hs_min

\* C12: in a finished call of partition(), no swell slot holds the energy of a
\* watershed partition whose Hs is below the hs_min the call was given.
C12_NoSwellBelowHsMin ==
    \A i \in Spectra : (method = "partition" /\ Done(i)) =>
        \A s \in RankedSlots(i) :
            HasEnergy(Slot(i, s)) => ~BelowHsMin(RecordedHs(i, SlotLabel(i, s)), args.hs_min)

\* the other wind and depth variables of the dataset: a gale from 180 degrees
\* where wspd and wdir are anything else, a calm where they are that gale
OtherWspd(i) == IF wspd[i] = 30 /\ wdir[i] = 180 THEN 0 ELSE 30
OtherWdir(i) == 180
OtherDpt(i) == dpt[i]
\* the mask of the wind and depth the call was given
SuppliedWindbool(i) ==
    NppartWindbool(freq, dir,
                   IF args.wspd = "othername" THEN OtherWspd(i) ELSE wspd[i],
                   IF args.wdir = "othername" THEN OtherWdir(i) ELSE wdir[i],
                   IF args.dpt = "othername" THEN OtherDpt(i) ELSE dpt[i],
                   AGEFAC)

\* C14: partition() given wspd, wdir or dpt as a DataArray raises no lookup
\* error, and the wind-sea mask a worker classifies with is the mask of the
\* wind and depth variables the call named.
C14_UsesWhatItIsGiven ==
    method = "partition" =>
        /\ status \notin LookupErrors
        /\ \A i \in Spectra : pc[i] \in {"loop", "done"} => windbool(i) = SuppliedWindbool(i)

\* ------------------------------------------------------------------- hs
\* the energy per frequency: the direction sum times the direction step with
\* more than one direction bin, the spectrum itself with one
HsE(spectrum, dax, f) ==
    IF Len(dax) > 1
    THEN FMul(IF dax[2] > dax[1] THEN dax[2] - dax[1] ELSE dax[1] - dax[2],
              FSumSeq(spectrum[f]))
    ELSE spectrum[f][1]

\* 2000 times the trapezoidal integral over the first n frequencies
RECURSIVE Trapezoid2000(_, _, _, _)
Trapezoid2000(spectrum, fax, dax, n) ==
    IF n <= 1 THEN 0
    ELSE FAdd(Trapezoid2000(spectrum, fax, dax, n - 1),
              FMul(IF fax[n] > fax[n - 1] THEN fax[n] - fax[n - 1] ELSE fax[n - 1] - fax[n],
                   FAdd(HsE(spectrum, dax, n), HsE(spectrum, dax, n - 1))))

\* 4000 * Etot: the trapezoidal integral, and the tail 0.25 * E_last * f_last
\* when tail is enabled and the last frequency is above 0.333 Hz
Etot4000(spectrum, fax, dax, tail) ==
    LET n == Len(fax)
    IN IF tail /\ fax[n] > 333
       THEN FAdd(FMul(2, Trapezoid2000(spectrum, fax, dax, n)),
                 FMul(HsE(spectrum, dax, n), fax[n]))
       ELSE FMul(2, Trapezoid2000(spectrum, fax, dax, n))

\* C13: every call of hs returns, and returns 4 * sqrt(Etot) (carried as
\* 4000 * Etot) with Etot the trapezoidal integral over frequency of E, plus the
\* tail term exactly when tail is enabled and the last frequency is above 0.333 Hz.
C13_HsIsTheFormula ==
    ret.fn = "hs" =>
        /\ ret.raised = "no"
        /\ ret.value = Etot4000(efth[1], freq, dir, args.tail)

\* the same for every spectrum of more than one bin
C13_HsIsTheFormulaBeyondOneBin ==
    (ret.fn = "hs" /\ (Len(freq) > 1 \/ Len(dir) > 1)) =>
        /\ ret.raised = "no"
        /\ ret.value = Etot4000(efth[1], freq, dir, args.tail)

\* --------------------------------------------------------- labelling loop
\* a pass of the loop of spectrum i that ends without raising
LoopPass(i) ==
    /\ pc[i] = "loop" /\ loc[i].ipeak <= loc[i].part_array_max
    /\ pc'[i] = "loop" /\ loc'[i].ipeak = loc[i].ipeak + 1
\* the basin the pass examines and what inflection finds in it
BasinSpec(i) == Where(loc[i].part_array, loc[i].ipeak, efth[i])
BasinImin(i) == inflection(BasinSpec(i), freq, DFRES, FMIN).imin
\* the non-zero bins of the basin from the row of the first minimum onward
FromFirstMinimum(i) ==
    {b \in Bins(efth[i]) : (b[1] - 1) >= BasinImin(i)[1] /\ FGt(BasinSpec(i)[b[1]][b[2]], 0)}
\* the non-zero bins of the basin in the rows before the first minimum
BeforeFirstMinimum(i) ==
    {b \in Bins(efth[i]) : (b[1] - 1) < BasinImin(i)[1] /\ FGt(BasinSpec(i)[b[1]][b[2]], 0)}
\* the pass gives the region the label max + 1 and a zero Hs entry, and no other
\* bin a new label (a sea basin goes to label 0)
Carves(i, region) ==
    /\ loc'[i].part_array_max = loc[i].part_array_max + 1
    /\ \A b \in Bins(efth[i]) :
          IF b \in region
          THEN loc'[i].part_array[b[1]][b[2]] = loc[i].part_array_max + 1
          ELSE loc'[i].part_array[b[1]][b[2]] \in {loc[i].part_array[b[1]][b[2]], 0}
    /\ DOMAIN loc'[i].partitions_hs_swell = 0..(loc[i].part_array_max + 1)
    /\ loc'[i].partitions_hs_swell[loc[i].part_array_max + 1] = 0
\* the pass creates no label
LeavesIntact(i) ==
    /\ loc'[i].part_array_max = loc[i].part_array_max
    /\ \A b \in Bins(efth[i]) :
          loc'[i].part_array[b[1]][b[2]] \in {loc[i].part_array[b[1]][b[2]], 0}
    /\ DOMAIN loc'[i].partitions_hs_swell = DOMAIN loc[i].partitions_hs_swell

\* C15: a pass that finds a minimum in its basin carves the bins of the basin
\* from the first minimum's frequency index onward as the new label max + 1, with
\* a zero Hs entry appended, when they hold more than 20 non-zero bins; otherwise
\* it leaves labels and label count as they are.
C15_CarvesFromFirstMinimumOnward ==
    [][\A i \in Spectra : LoopPass(i) =>
          IF Len(BasinImin(i)) > 0 /\ Cardinality(FromFirstMinimum(i)) > MINBINS
          THEN Carves(i, FromFirstMinimum(i))
          ELSE LeavesIntact(i)]_vars

\* what the pass does: it carves the rows before the first minimum
C15_CarvesBeforeFirstMinimum ==
    [][\A i \in Spectra : LoopPass(i) =>
          IF Len(BasinImin(i)) > 0 /\ Cardinality(BeforeFirstMinimum(i)) > MINBINS
          THEN Carves(i, BeforeFirstMinimum(i))
          ELSE LeavesIntact(i)]_vars

\* C16: for a spectrum of one frequency bin inflection returns empty collections
\* of maxima and minima, and the nppart call that examined a basin of it has
\* split nothing and has not raised.
C16_SingleFrequencyCompletes ==
    \A i \in Spectra : (Len(freq) = 1 /\ loc[i].visited # << >>) =>
        /\ inflection(efth[i], freq, DFRES, FMIN).isarray
        /\ inflection(efth[i], freq, DFRES, FMIN).imax = << >>
        /\ inflection(efth[i], freq, DFRES, FMIN).imin = << >>
        /\ pc[i] # "raised"
        /\ loc[i].nsplit = 0

\* the loop of spectrum i is over
LoopOver(i) == pc[i] \in {"done", "raised"}
\* the passes made so far visited the labels 1, 2, ... in ascending order, none
\* beyond the current maximum; the maximum grew by one per split; the splits,
\* each of more than 20 bins of its own, are bounded by the grid; and the Hs
\* bookkeeping has one entry per label 0 .. maximum
PassesBounded(i) ==
    /\ loc[i].visited = [k \in 1..Len(loc[i].visited) |-> k]
    /\ Len(loc[i].visited) <= loc[i].part_array_max
    /\ loc[i].part_array_max = ArrayMax(labels[i]) + loc[i].nsplit
    /\ loc[i].nsplit * (MINBINS + 1) <= Cardinality(Bins(efth[i]))
    /\ DOMAIN loc[i].partitions_hs_swell = 0..loc[i].part_array_max
\* every label 1 .. final maximum was visited
VisitedAll(i) == Len(loc[i].visited) = loc[i].part_array_max

\* C17: the passes of the loop are bounded, so the loop ends; when it is over
\* every label 1 .. final maximum was visited exactly once in ascending order and
\* the Hs bookkeeping has one entry per label 0 .. final maximum.
C17_LoopVisitsEveryLabelAndEnds ==
    \A i \in Spectra :
        /\ PassesBounded(i)
        /\ LoopOver(i) => VisitedAll(i)

\* the same for the spectra of more than one frequency bin
C17_LoopEndsOnSeveralFrequencies ==
    \A i \in Spectra : Len(freq) > 1 =>
        /\ PassesBounded(i)
        /\ LoopOver(i) => VisitedAll(i)

\* ------------------------------------------------------- error handling
AllZero(g) == \A b \in Bins(g) : g[b[1]][b[2]] = 0
AllNaN(g) == \A b \in Bins(g) : IsNaN(g[b[1]][b[2]])
Errors == {"TypeError", "ValueError"}

\* C7: on an all-zero and on an all-NaN spectrum no method raises, and every bin
\* of every partition returned is 0.
C7_ZeroAndNaNSpectraGiveZeros ==
    \A i \in Spectra : (AllZero(efth[i]) \/ AllNaN(efth[i])) =>
        /\ pc[i] # "raised"
        /\ Done(i) => \A s \in 1..Len(all_parts[i]) : AllZero(all_parts[i][s])
        /\ (Returned("ptm4") \/ Returned("ptm5")) =>
              \A s \in 1..Len(dsout.part[i]) : AllZero(dsout.part[i][s])

\* C8: a call of ptm2 raises a not-implemented error or returns partitions; it
\* never returns without having produced any.
C8_Ptm2NotSilent ==
    method = "ptm2" =>
        \/ status = "NotImplementedError"
        \/ status = "returned" /\ \A i \in Spectra : dsout.part[i] # << >>

\* wind or depth given on coordinates that are not those of the spectra
Mismatched == \E a \in {"wspd", "wdir", "dpt"} : args[a] # "dset"

\* C9: ptm1 and ptm4 with wind or depth on other coordinates than the spectra
\* start no per-spectrum computation and return no result.
C9_MismatchFailsFirst ==
    (method \in {"ptm1", "ptm4"} /\ Mismatched) =>
        /\ status # "returned"
        /\ \A i \in Spectra : pc[i] = "idle" /\ dsout.part[i] = << >>

\* ------------------------------------------------------------- batch layer
\* every call that has ended has ended as nppart ends on its spectrum alone
EndsAsAlone ==
    \A i \in Spectra :
        /\ Done(i) => NppartResult(i).raised = "no" /\ all_parts[i] = NppartResult(i).all_parts
        /\ pc[i] = "raised" => NppartResult(i).raised # "no"

\* C10: whatever the interleaving of the workers, a spectrum's call ends as
\* nppart ends on that spectrum alone - the same partitions, or the same
\* exception - and no step changes the dataset handed in.
C10_OrderIndependent == [](EndsAsAlone) /\ [][inputs' = inputs]_vars

\* C10 witness: a dataset of two different spectra, one call back with several
\* partitions holding energy after a split, the other still inside its loop.
C10_Witness ==
    /\ Len(efth) = 2 /\ efth[1] # efth[2]
    /\ \E i \in Spectra, j \in Spectra :
          /\ Done(i) /\ loc[i].nsplit > 0
          /\ \E s \in RankedSlots(i) : HasEnergy(Slot(i, s))
          /\ pc[j] = "loop" /\ loc[j].ipeak > 1
====
